---- MODULE Spec2Model ----
(***************************************************************************)
(* Model of the issue hierarchy traversal and ancestry labelling of        *)
(* src/sidekick/clients/jira.py: JiraClient.get_issue_hierarchy,           *)
(* JiraClient.label_roadmap_hierarchy, JiraClient.add_label,               *)
(* _extract_prefix and _build_ancestry_labels.                             *)
(*                                                                         *)
(* Text the code inspects (link type names, summaries, labels) is a        *)
(* sequence of one-character strings, so that lower(), "in" and the        *)
(* prefix pattern are computed.  An issue key "P-3" is the pair <<"P", 3>>.*)
(***************************************************************************)
EXTENDS Integers, Sequences, FiniteSets, TLC

(***************************************************************************)
(* Bounds of the model.                                                    *)
(***************************************************************************)
MaxLabelSize == 5 \* labelling runs: issues of the chain + settings away from the defaults
MaxTitle == 6     \* _extract_prefix: characters of the enumerated titles
MaxChain == 5     \* _build_ancestry_labels: issues on the parent chain
MaxRuns == 2      \* runs of label_roadmap_hierarchy on one repository, one after the other
MaxLimit == 2     \* the largest limit given to label_roadmap_hierarchy
MaxSize == 3      \* edges of the repository graph + settings away from the defaults
MaxClone == 1     \* clone links in the repository
SmallDepth == 1   \* the max_depth given when it is not the default
MaxDeep == 4      \* edges of the repository graph when max_depth is DeepDepth
DeepDepth == 2    \* a max_depth that leaves room for a path longer than the shortest
MaxOther == 1     \* label writes by another writer while a labelling run is under way
MaxShared == 2    \* issues of the chain when another writer is at work

(***************************************************************************)
(* Text.                                                                   *)
(***************************************************************************)
UpperChars == <<"A","B","C","D","E","F","G","H","I","J","K","L","M",
                "N","O","P","Q","R","S","T","U","V","W","X","Y","Z">>
LowerChars == <<"a","b","c","d","e","f","g","h","i","j","k","l","m",
                "n","o","p","q","r","s","t","u","v","w","x","y","z">>
Digits == {"0","1","2","3","4","5","6","7","8","9"}

IsUpper(c) == \E i \in DOMAIN UpperChars : UpperChars[i] = c

LowerChar(c) ==
    IF IsUpper(c)
    THEN LowerChars[CHOOSE i \in DOMAIN UpperChars : UpperChars[i] = c]
    ELSE c

\* str.lower()
StrLower(s) == [i \in 1..Len(s) |-> LowerChar(s[i])]

\* sub in s
StrContains(sub, s) ==
    \E i \in 0..(Len(s) - Len(sub)) : SubSeq(s, i + 1, i + Len(sub)) = sub

CloneWord == <<"c","l","o","n","e">>

(***************************************************************************)
(* Keys and link types of the repository.                                  *)
(***************************************************************************)
NoKey == <<"", 0>>
KeyList == << <<"P", 1>>, <<"P", 2>>, <<"P", 3>>, <<"Q", 1>> >>
Keys == {KeyList[i] : i \in DOMAIN KeyList}
\* an order of the keys, for the order of query results and of an issue's links
KeyRank(k) == k[2] + k[2] + (IF k[1] = "P" THEN 0 ELSE 1)
RootKey == <<"P", 1>>

Relates ==
    [name    |-> <<"R","e","l","a","t","e","s">>,
     inward  |-> <<"r","e","l","a","t","e","s"," ","t","o">>,
     outward |-> <<"r","e","l","a","t","e","s"," ","t","o">>]
Cloners ==
    [name    |-> <<"C","l","o","n","e","r","s">>,
     inward  |-> <<"i","s"," ","c","l","o","n","e","d"," ","b","y">>,
     outward |-> <<"c","l","o","n","e","s">>]
UpperClone ==
    [name    |-> <<"C","L","O","N","E">>,
     inward  |-> <<"c","o","p","y"," ","o","f">>,
     outward |-> <<"c","o","p","i","e","d"," ","t","o">>]
LinkTypeList == <<Relates, Cloners, UpperClone>>
LinkTypes == {LinkTypeList[i] : i \in DOMAIN LinkTypeList}
NamedClone(t) == StrContains(CloneWord, StrLower(t.name))

(***************************************************************************)
(* Repository contents.  An edge is a parent/child edge (kind 0: dst has   *)
(* parent src) or an issue link of type LinkTypeList[kind] listed in src's *)
(* issuelinks and naming dst.                                              *)
(***************************************************************************)
ParentKind == 0
EdgeKinds == {ParentKind} \cup DOMAIN LinkTypeList
AllEdges == {e \in [src : Keys, dst : Keys, kind : EdgeKinds] : e.src # e.dst}

RECURSIVE Closure(_, _)
Closure(E, S) ==
    LET T == S \cup {e.dst : e \in {x \in E : x.src \in S}}
    IN  IF T = S THEN S ELSE Closure(E, T)

ParentEdges(E) == {e \in E : e.kind = ParentKind}
CloneEdges(E) == {e \in E : e.kind # ParentKind /\ NamedClone(LinkTypeList[e.kind])}

\* An issue has at most one parent, no issue is its own ancestor, every edge
\* starts at an issue the root leads to.
WellFormed(E) ==
    /\ \A e, f \in ParentEdges(E) : e.dst = f.dst => e = f
    /\ \A e \in ParentEdges(E) : e.src \notin Closure(ParentEdges(E), {e.dst})
    /\ Cardinality(CloneEdges(E)) <= MaxClone
    /\ \A e \in E : e.src \in Closure(E, {RootKey})

RECURSIVE GraphsUpTo(_)
GraphsUpTo(n) ==
    IF n = 0 THEN {{}}
    ELSE LET S == GraphsUpTo(n - 1)
         IN  S \cup {E \in {G \cup {e} : G \in S, e \in AllEdges} : WellFormed(E)}
Graphs == [n \in 0..MaxSize |-> GraphsUpTo(n)]

EdgeRank(e) == KeyRank(e.dst) * (Len(LinkTypeList) + 1) + e.kind
RECURSIVE EdgeSeq(_)
EdgeSeq(S) ==
    IF S = {} THEN <<>>
    ELSE LET m == CHOOSE e \in S : \A f \in S : EdgeRank(e) <= EdgeRank(f)
         IN  <<m>> \o EdgeSeq(S \ {m})

LinksOf(E, k) ==
    LET es == EdgeSeq({e \in E : e.src = k /\ e.kind # ParentKind})
    IN  [i \in 1..Len(es) |-> [type |-> LinkTypeList[es[i].kind], key |-> es[i].dst]]

ParentOf(E, k) ==
    IF \E e \in ParentEdges(E) : e.dst = k
    THEN (CHOOSE e \in ParentEdges(E) : e.dst = k).src
    ELSE NoKey

MakeRepo(K, E, missing, stories, summary, labels) ==
    [k \in K |->
        [exists     |-> k \notin missing,
         issuetype  |-> IF k \in stories THEN "Story" ELSE "Epic",
         summary    |-> summary[k],
         labels     |-> labels[k],
         issuelinks |-> LinksOf(E, k),
         parent     |-> ParentOf(E, k)]]

(***************************************************************************)
(* State.                                                                  *)
(***************************************************************************)
VARIABLES
    repo,         \* the issue repository: key -> fields
    faults,       \* repository calls that may still fail for no reason of the data
    args,         \* arguments of the call being run
    calls,        \* repository calls made so far, in order
    visited,      \* get_issue_hierarchy: visited
    issue_cache,  \* get_issue_hierarchy: issue_cache
    stack,        \* get_issue_hierarchy: the nested traverse generators
    item,         \* the node last yielded
    out,          \* every node yielded so far, in order
    expanded,     \* the nodes whose descendants were collected, in order
    pc,           \* where the caller of the generator is
    root_family,  \* label_roadmap_hierarchy: root_family
    prefix_map,   \* label_roadmap_hierarchy: prefix_map
    parent_map,   \* label_roadmap_hierarchy: parent_map
    label_map,    \* label_roadmap_hierarchy: label_map
    stats,        \* label_roadmap_hierarchy: stats
    new_labels,   \* label_roadmap_hierarchy: the labels of new_labels still to add
    adding,       \* add_label: the label and the labels it read, between read and write
    attempts,     \* the add_label calls of the run that have ended, in order
    earlier,      \* the runs of label_roadmap_hierarchy that ended before this one
    fn            \* a helper function applied on its own: its arguments and result

travVars == <<visited, issue_cache, stack, item, out, expanded>>
labelVars == <<root_family, prefix_map, parent_map, label_map, stats, new_labels, adding,
               attempts, earlier>>
vars == <<repo, faults, args, calls, travVars, pc, labelVars, fn>>

DefaultMaxDepth == 10
ChildMaxResults == 100

Issue(k) ==
    [key        |-> k,
     summary    |-> repo[k].summary,
     labels     |-> repo[k].labels,
     issuetype  |-> repo[k].issuetype,
     issuelinks |-> repo[k].issuelinks]

\* issue_cache[issue_key] = None
NoIssue ==
    [key |-> NoKey, summary |-> <<>>, labels |-> <<>>, issuetype |-> "",
     issuelinks |-> <<>>]

Call(op, key, arg, ok) == [op |-> op, key |-> key, arg |-> arg, ok |-> ok]

\* _request as get_issue sees it: the answer the data gives, or any failure
\* while faults remain.
GetIssueAnswer(k) == IF repo[k].exists THEN "ok" ELSE "ValueError"
GetIssueOutcomes(k) ==
    {GetIssueAnswer(k)} \cup (IF faults > 0 THEN {"ValueError", "RuntimeError"} ELSE {})
QueryOutcomes(left) == {"ok"} \cup (IF left > 0 THEN {"Error"} ELSE {})
Cost(outcome, answer) == IF outcome = answer THEN 0 ELSE 1

Top == stack[Len(stack)]
Pop(s) == SubSeq(s, 1, Len(s) - 1)
SetTop(s, f) == [s EXCEPT ![Len(s)] = f]

\* The body of get_issue_hierarchy, about to run
\* "yield from traverse(root_issue_key, 0, "root", None)".
RootFrame(root) ==
    [issue_key |-> NoKey, depth |-> -1, relationship |-> "", parent_key |-> NoKey,
     at |-> "recurse",
     descendants |-> << [key |-> root, relationship |-> "root"] >>,
     next |-> 1]

\* (mutant) the node carries the depth of the node that expanded it
HierarchyNode_ParentDepth(issue, depth, relationship, parent_key) ==
    [issue |-> issue, depth |-> IF depth > 0 THEN depth - 1 ELSE depth,
     relationship |-> relationship, parent_key |-> parent_key]

HierarchyNode(issue, depth, relationship, parent_key) ==
    [issue |-> issue, depth |-> depth, relationship |-> relationship,
     parent_key |-> parent_key]

\* (mutant) the depth bound off by one
SkipVisit_OffByOne(issue_key, depth) == depth >= args.max_depth \/ issue_key \in visited

\* (mutant) the visited check left out
SkipVisit_DepthOnly(issue_key, depth) == depth > args.max_depth

\* traverse: "if depth > max_depth or issue_key in visited: return"
SkipVisit(issue_key, depth) == depth > args.max_depth \/ issue_key \in visited

\* (mutant) the key is not recorded as visited
MarkVisited_Forgotten(issue_key) == visited

\* traverse: "visited.add(issue_key)"
MarkVisited(issue_key) == visited \cup {issue_key}

\* traverse: should_yield
ShouldYield(issue) == args.issue_type = "" \/ issue.issuetype = args.issue_type

\* (mutant) the texts are compared without lower()
IsCloneType_CaseSensitive ==
    [t \in LinkTypes |->
        \/ StrContains(CloneWord, t.name)
        \/ StrContains(CloneWord, t.inward)
        \/ StrContains(CloneWord, t.outward)]

\* traverse: is_clone, for each link type of the repository
IsCloneType ==
    [t \in LinkTypes |->
        \/ StrContains(CloneWord, StrLower(t.name))
        \/ StrContains(CloneWord, StrLower(t.inward))
        \/ StrContains(CloneWord, StrLower(t.outward))]
IsClone(link) == IsCloneType[link.type]

\* (mutant) the project filter is not applied to linked issues
ShouldInclude_AnyProject(linked_key) == linked_key \notin visited

\* traverse: should_include
ShouldInclude(linked_key) ==
    /\ linked_key \notin visited
    /\ args.project # "" => linked_key[1] = args.project

\* traverse: linked_keys, from the loop over issuelinks
LinkedKeys(issuelinks) ==
    LET kept == SelectSeq(issuelinks, LAMBDA l : ~IsClone(l) /\ ShouldInclude(l.key))
    IN  [i \in 1..Len(kept) |-> kept[i].key]

Range(s) == {s[i] : i \in DOMAIN s}

RECURSIVE KeySeq(_)
KeySeq(S) ==
    IF S = {} THEN <<>>
    ELSE LET m == CHOOSE k \in S : \A j \in S : KeyRank(k) <= KeyRank(j)
         IN  <<m>> \o KeySeq(S \ {m})

Take(s, n) == SubSeq(s, 1, IF Len(s) < n THEN Len(s) ELSE n)

NoNode == HierarchyNode(NoIssue, -1, "", NoKey)
NoStats == [processed |-> 0, labeled |-> 0, skipped |-> 0, errors |-> 0]
NoAdd == [label |-> <<>>, current_labels |-> <<>>]
NoCall == [name |-> "", args |-> <<>>, result |-> <<>>, returned |-> FALSE]

\* no label_roadmap_hierarchy is running
NoLabelling ==
    /\ root_family = ""
    /\ prefix_map = <<>>
    /\ parent_map = <<>>
    /\ label_map = <<>>
    /\ stats = NoStats
    /\ new_labels = {}
    /\ adding = NoAdd
    /\ attempts = <<>>
    /\ earlier = <<>>

(***************************************************************************)
(* Repository queries.                                                     *)
(***************************************************************************)
\* query_issues("key = K" / "key IN (...)"): the issues among the keys that exist
QueryKeys(keys) == {k \in Range(keys) : repo[k].exists}

\* query_issues("parent = K [AND project = P] [AND issuetype = T]", max_results=100)
QueryChildren(parent_key) ==
    Take(KeySeq({c \in DOMAIN repo :
                    /\ repo[c].exists
                    /\ repo[c].parent = parent_key
                    /\ args.project # "" => c[1] = args.project
                    /\ args.issue_type # "" => repo[c].issuetype = args.issue_type}),
         ChildMaxResults)

\* issue_cache[k] = <the issue as the repository holds it now>, for k in S
Cached(cache, S) ==
    [k \in DOMAIN cache \cup S |-> IF k \in S THEN Issue(k) ELSE cache[k]]

(***************************************************************************)
(* get_issue_hierarchy.                                                    *)
(***************************************************************************)
\* (mutant) a key that was not found is entered as an issue without fields
Entered_NotFoundEntered(back, d, depth, parent_key, issue) ==
    /\ stack' = Append(back,
           [issue_key |-> d.key, depth |-> depth,
            relationship |-> d.relationship, parent_key |-> parent_key,
            at |-> "expand", descendants |-> <<>>, next |-> 1])
    /\ IF ShouldYield(issue)
       THEN LET node == HierarchyNode(issue, depth, d.relationship, parent_key)
            IN  /\ item' = node
                /\ out' = Append(out, node)
                /\ pc' = "yielded"
       ELSE UNCHANGED <<item, out, pc>>

\* traverse, from the fetched issue to its yield
Entered(back, d, depth, parent_key, issue) ==
    IF issue = NoIssue
    THEN /\ stack' = back
         /\ UNCHANGED <<item, out, pc>>
    ELSE /\ stack' = Append(back,
                [issue_key |-> d.key, depth |-> depth,
                 relationship |-> d.relationship, parent_key |-> parent_key,
                 at |-> "expand", descendants |-> <<>>, next |-> 1])
         /\ IF ShouldYield(issue)
            THEN LET node == HierarchyNode(issue, depth, d.relationship, parent_key)
                 IN  /\ item' = node
                     /\ out' = Append(out, node)
                     /\ pc' = "yielded"
            ELSE UNCHANGED <<item, out, pc>>

\* "yield from traverse(desc_key, depth + 1, desc_relationship, issue_key)" up to
\* the yield of the node: the depth and visited check, visited.add, fetch_issue,
\* the type filter.
Traverse ==
    /\ pc = "traverse"
    /\ Top.at = "recurse"
    /\ Top.next <= Len(Top.descendants)
    /\ LET f == Top
           d == f.descendants[f.next]
           depth == f.depth + 1
           back == SetTop(stack, [f EXCEPT !.next = @ + 1])
       IN  IF SkipVisit(d.key, depth)
           THEN /\ stack' = back
                /\ UNCHANGED <<visited, issue_cache, item, out, calls, faults, pc>>
           ELSE /\ visited' = MarkVisited(d.key)
                /\ IF d.key \in DOMAIN issue_cache
                   THEN /\ UNCHANGED <<issue_cache, calls, faults>>
                        /\ Entered(back, d, depth, f.issue_key, issue_cache[d.key])
                   ELSE \E o \in GetIssueOutcomes(d.key) :
                          /\ calls' = Append(calls, Call("get_issue", d.key, <<>>, o = "ok"))
                          /\ faults' = faults - Cost(o, GetIssueAnswer(d.key))
                          /\ IF o = "RuntimeError"
                             THEN /\ stack' = <<>>
                                  /\ pc' = "raised"
                                  /\ UNCHANGED <<issue_cache, item, out>>
                             ELSE LET issue == IF o = "ok" THEN Issue(d.key) ELSE NoIssue
                                  IN  /\ issue_cache' = issue_cache @@ (d.key :> issue)
                                      /\ Entered(back, d, depth, f.issue_key, issue)
    /\ UNCHANGED <<repo, args, expanded, labelVars, fn>>

\* (mutant) the children are put before the linked issues
Descendants_ChildrenFirst(linked_keys, children) ==
    [i \in 1..Len(children) |-> [key |-> children[i], relationship |-> "child"]]
    \o [i \in 1..Len(linked_keys) |-> [key |-> linked_keys[i], relationship |-> "linked"]]

\* traverse: descendants, "descendants.append((linked_key, "linked"))" in the link
\* loop, then "descendants.append((child_key, "child"))" in the loop over children
Descendants(linked_keys, children) ==
    [i \in 1..Len(linked_keys) |-> [key |-> linked_keys[i], relationship |-> "linked"]]
    \o [i \in 1..Len(children) |-> [key |-> children[i], relationship |-> "child"]]

\* traverse after the yield: the linked candidates, their batch fetch, the child
\* query, the descendants list.
TraverseExpand ==
    /\ pc = "traverse"
    /\ Top.at = "expand"
    /\ LET f == Top
           issue == issue_cache[f.issue_key]
           linked_keys == LinkedKeys(issue.issuelinks)
           uncached_linked == SelectSeq(linked_keys, LAMBDA k : k \notin DOMAIN issue_cache)
       IN  \E o1 \in (IF uncached_linked = <<>> THEN {"none"} ELSE QueryOutcomes(faults)) :
             LET c1 == IF o1 = "Error" THEN 1 ELSE 0
                 cache1 == IF o1 = "ok"
                           THEN Cached(issue_cache, QueryKeys(uncached_linked))
                           ELSE issue_cache
                 calls1 == IF o1 = "none" THEN calls
                           ELSE Append(calls, Call("query_keys", NoKey, uncached_linked, o1 = "ok"))
             IN  \E o2 \in QueryOutcomes(faults - c1) :
                   LET c2 == IF o2 = "Error" THEN 1 ELSE 0
                       children == IF o2 = "ok"
                                   THEN SelectSeq(QueryChildren(f.issue_key),
                                                  LAMBDA c : c \notin visited)
                                   ELSE <<>>
                       descendants == Descendants(linked_keys, children)
                   IN  /\ issue_cache' = Cached(cache1, Range(children))
                       /\ calls' = Append(calls1,
                                      Call("query_children", f.issue_key, <<>>, o2 = "ok"))
                       /\ faults' = faults - c1 - c2
                       /\ stack' = SetTop(stack, [f EXCEPT !.at = "recurse",
                                                           !.descendants = descendants,
                                                           !.next = 1])
                       /\ expanded' = Append(expanded,
                                         [key |-> f.issue_key, depth |-> f.depth,
                                          relationship |-> f.relationship,
                                          parent_key |-> f.parent_key])
    /\ UNCHANGED <<repo, args, visited, item, out, pc, labelVars, fn>>

\* the end of traverse's loop over descendants; the generator is exhausted when
\* the outermost "yield from" returns
TraverseReturn ==
    /\ pc = "traverse"
    /\ Top.at = "recurse"
    /\ Top.next > Len(Top.descendants)
    /\ stack' = Pop(stack)
    /\ pc' = IF Len(stack) = 1 THEN "done" ELSE pc
    /\ UNCHANGED <<repo, faults, args, calls, visited, issue_cache, item, out, expanded,
                   labelVars, fn>>

\* main, "hierarchy": the body of "for item in client.get_issue_hierarchy(...)"
Collect ==
    /\ pc = "yielded"
    /\ pc' = "traverse"
    /\ UNCHANGED <<repo, faults, args, calls, travVars, labelVars, fn>>

(***************************************************************************)
(* _extract_prefix and _build_ancestry_labels.                             *)
(***************************************************************************)
RECURSIVE DigitsEnd(_, _)
\* the end of the run of digits of s that starts at i
DigitsEnd(s, i) ==
    IF i + 1 <= Len(s) /\ s[i + 1] \in Digits THEN DigitsEnd(s, i + 1) ELSE i

\* (mutant) at most one group "." digits is taken
GroupsEnd_OneGroup(s, i) ==
    IF i + 2 <= Len(s) /\ s[i + 1] = "." /\ s[i + 2] \in Digits
    THEN DigitsEnd(s, i + 2)
    ELSE i

RECURSIVE GroupsEnd(_, _)
\* the end of the groups "." digits that follow position i of s
GroupsEnd(s, i) ==
    IF i + 2 <= Len(s) /\ s[i + 1] = "." /\ s[i + 2] \in Digits
    THEN GroupsEnd(s, DigitsEnd(s, i + 2))
    ELSE i

\* (mutant) the digits after the letter are optional
ExtractPrefix_NoDigits(summary) ==
    IF Len(summary) >= 1 /\ IsUpper(summary[1])
    THEN SubSeq(summary, 1, GroupsEnd(summary, DigitsEnd(summary, 1)))
    ELSE <<>>

\* re.match(r'^([A-Z]\d+(?:\.\d+)*)\s*\.?\s*', summary): group 1, or <<>> for None
ExtractPrefix(summary) ==
    IF Len(summary) >= 2 /\ IsUpper(summary[1]) /\ summary[2] \in Digits
    THEN SubSeq(summary, 1, GroupsEnd(summary, DigitsEnd(summary, 2)))
    ELSE <<>>

Reverse(s) == [i \in 1..Len(s) |-> s[Len(s) + 1 - i]]

RECURSIVE AncestryWalk_KeepsCase(_, _, _, _)
\* (mutant) the prefixes are collected as they are written
AncestryWalk_KeepsCase(current_key, prefix_map_, parent_map_, ancestry) ==
    LET found == IF current_key \in DOMAIN prefix_map_
                 THEN Append(ancestry, prefix_map_[current_key])
                 ELSE ancestry
    IN  IF current_key \in DOMAIN parent_map_
        THEN AncestryWalk_KeepsCase(parent_map_[current_key], prefix_map_, parent_map_, found)
        ELSE found

RECURSIVE AncestryWalk(_, _, _, _)
\* _build_ancestry_labels: the while loop, from current_key on
AncestryWalk(current_key, prefix_map_, parent_map_, ancestry) ==
    LET found == IF current_key \in DOMAIN prefix_map_
                 THEN Append(ancestry, StrLower(prefix_map_[current_key]))
                 ELSE ancestry
    IN  IF current_key \in DOMAIN parent_map_
        THEN AncestryWalk(parent_map_[current_key], prefix_map_, parent_map_, found)
        ELSE found

\* (mutant) the compressed list keeps the first two entries and the last
Compress_FirstTwo(ancestry) ==
    IF Len(ancestry) > 3
    THEN <<ancestry[1], ancestry[2], ancestry[Len(ancestry)]>>
    ELSE ancestry

\* _build_ancestry_labels: "if len(ancestry) > 3: return [ancestry[0],
\* ancestry[-2], ancestry[-1]]; else: return ancestry"
Compress(ancestry) ==
    IF Len(ancestry) > 3
    THEN <<ancestry[1], ancestry[Len(ancestry) - 1], ancestry[Len(ancestry)]>>
    ELSE ancestry

\* (mutant) the parent's labels are inherited from depth 3 on
BuildAncestryLabels_InheritAt3(issue_key, prefix_map_, parent_map_, label_map_, depth) ==
    IF /\ depth >= 3
       /\ issue_key \in DOMAIN parent_map_
       /\ parent_map_[issue_key] \in DOMAIN label_map_
    THEN label_map_[parent_map_[issue_key]]
    ELSE Compress(Reverse(AncestryWalk(issue_key, prefix_map_, parent_map_, <<>>)))

\* (mutant) the labels are computed from the chain at every depth
BuildAncestryLabels_NeverInherit(issue_key, prefix_map_, parent_map_, label_map_, depth) ==
    Compress(Reverse(AncestryWalk(issue_key, prefix_map_, parent_map_, <<>>)))

BuildAncestryLabels(issue_key, prefix_map_, parent_map_, label_map_, depth) ==
    IF /\ depth >= 4
       /\ issue_key \in DOMAIN parent_map_
       /\ parent_map_[issue_key] \in DOMAIN label_map_
    THEN label_map_[parent_map_[issue_key]]
    ELSE Compress(Reverse(AncestryWalk(issue_key, prefix_map_, parent_map_, <<>>)))

(***************************************************************************)
(* label_roadmap_hierarchy and add_label.                                  *)
(***************************************************************************)
Put(map, k, v) == [x \in DOMAIN map \cup {k} |-> IF x = k THEN v ELSE map[x]]

\* (mutant) a limit of 0 is a limit like any other
LimitReached_ZeroStops(limit, labeled) ==
    limit # <<>> /\ labeled >= limit[1]

\* (mutant) the run stops one labelled item late
LimitReached_Late(limit, labeled) ==
    limit # <<>> /\ limit[1] # 0 /\ labeled > limit[1]

\* "if limit and stats['labeled'] >= limit"
LimitReached(limit, labeled) ==
    limit # <<>> /\ limit[1] # 0 /\ labeled >= limit[1]

\* (mutant) dry_run is ignored
Disposition_AlwaysApply(new, dry_run) ==
    IF new = {} THEN "traverse" ELSE "apply"

\* "if not new_labels: ... continue", then "if dry_run: ... else: ..."
Disposition(new, dry_run) ==
    IF new = {} THEN "traverse"
    ELSE IF dry_run THEN "count" ELSE "apply"

\* the validation of the root, up to the start of the loop over the hierarchy
LabelStart ==
    /\ pc = "start"
    /\ \E o \in GetIssueOutcomes(args.root_issue_key) :
          /\ calls' = Append(calls, Call("get_issue", args.root_issue_key, <<>>, o = "ok"))
          /\ faults' = faults - Cost(o, GetIssueAnswer(args.root_issue_key))
          /\ LET root_prefix == IF o = "ok"
                                THEN ExtractPrefix(repo[args.root_issue_key].summary)
                                ELSE <<>>
             IN  IF root_prefix = <<>>
                 THEN /\ pc' = "raised"
                      /\ UNCHANGED <<root_family, stack>>
                 ELSE /\ root_family' = root_prefix[1]
                      /\ stack' = <<RootFrame(args.root_issue_key)>>
                      /\ pc' = "traverse"
    /\ UNCHANGED <<repo, args, visited, issue_cache, item, out, expanded,
                   prefix_map, parent_map, label_map, stats, new_labels, adding,
                   attempts, earlier, fn>>

\* (mutant) a prefix of any family is recorded
InFamily_AnyPrefix(prefix, family) == prefix # <<>>

\* "if prefix and prefix[0] == root_family"
InFamily(prefix, family) == prefix # <<>> /\ prefix[1] = family

\* the loop body for one item, up to the decision to skip, preview or apply
LabelItem ==
    /\ pc = "yielded"
    /\ LET issue == item.issue
           issue_key == issue.key
           parents == IF item.parent_key # NoKey
                      THEN Put(parent_map, issue_key, item.parent_key)
                      ELSE parent_map
           prefix == ExtractPrefix(issue.summary)
           prefixes == IF InFamily(prefix, root_family)
                       THEN Put(prefix_map, issue_key, prefix)
                       ELSE prefix_map
           ancestry_labels ==
               BuildAncestryLabels(issue_key, prefixes, parents, label_map, item.depth)
           new == Range(ancestry_labels) \ Range(issue.labels)
       IN  /\ parent_map' = parents
           /\ prefix_map' = prefixes
           /\ label_map' = Put(label_map, issue_key, ancestry_labels)
           /\ new_labels' = new
           /\ pc' = Disposition(new, args.dry_run)
    /\ UNCHANGED <<repo, faults, args, calls, travVars, root_family, stats, adding,
                   attempts, earlier, fn>>

\* an add_label call that has ended: returned (ok) or raised
Attempt(issue_key, label, ok) == [key |-> issue_key, label |-> label, ok |-> ok]

\* (mutant) a failed add_label is not counted
CountError_Never(stats_) == stats_

\* (mutant) a failed add_label is counted twice
CountError_Twice(stats_) == [stats_ EXCEPT !.errors = @ + 2]

\* "except Exception as e: ... stats['errors'] += 1"
CountError(stats_) == [stats_ EXCEPT !.errors = @ + 1]

\* (mutant) the labels the issue has are dropped
UpdatedLabels_OnlyNew(current_labels, label) == <<label>>

\* add_label: "updated_labels = current_labels + [label]"
UpdatedLabels(current_labels, label) == Append(current_labels, label)

\* add_label for one of the new labels: "issue = self.get_issue(issue_key)"
AddLabelRead ==
    /\ pc = "apply"
    /\ \E label \in new_labels : \E o \in GetIssueOutcomes(item.issue.key) :
          /\ calls' = Append(calls, Call("get_issue", item.issue.key, <<>>, o = "ok"))
          /\ faults' = faults - Cost(o, GetIssueAnswer(item.issue.key))
          /\ IF o = "ok"
             THEN /\ adding' = [label |-> label,
                                current_labels |-> repo[item.issue.key].labels]
                  /\ pc' = "write"
                  /\ UNCHANGED <<stats, new_labels, attempts>>
             ELSE /\ stats' = CountError(stats)
                  /\ attempts' = Append(attempts, Attempt(item.issue.key, label, FALSE))
                  /\ new_labels' = new_labels \ {label}
                  /\ pc' = IF new_labels' = {} THEN "count" ELSE "apply"
                  /\ UNCHANGED adding
    /\ UNCHANGED <<repo, args, travVars, root_family, prefix_map, parent_map, label_map,
                   earlier, fn>>

\* add_label: "if label not in current_labels: ... self.update_issue(...)"
AddLabelWrite ==
    /\ pc = "write"
    /\ IF adding.label \in Range(adding.current_labels)
       THEN /\ attempts' = Append(attempts, Attempt(item.issue.key, adding.label, TRUE))
            /\ UNCHANGED <<repo, calls, faults, stats>>
       ELSE LET updated_labels == UpdatedLabels(adding.current_labels, adding.label)
            IN  \E o \in QueryOutcomes(faults) :
                  /\ calls' = Append(calls, Call("update_issue", item.issue.key,
                                                 updated_labels, o = "ok"))
                  /\ faults' = faults - Cost(o, "ok")
                  /\ attempts' = Append(attempts,
                                         Attempt(item.issue.key, adding.label, o = "ok"))
                  /\ IF o = "ok"
                     THEN /\ repo' = [repo EXCEPT ![item.issue.key].labels = updated_labels]
                          /\ UNCHANGED stats
                     ELSE /\ stats' = CountError(stats)
                          /\ UNCHANGED repo
    /\ adding' = NoAdd
    /\ new_labels' = new_labels \ {adding.label}
    /\ pc' = IF new_labels' = {} THEN "count" ELSE "apply"
    /\ UNCHANGED <<args, travVars, root_family, prefix_map, parent_map, label_map,
                   earlier, fn>>

\* "stats['processed'] += 1; stats['labeled'] += 1" and the limit check
LabelCount ==
    /\ pc = "count"
    /\ stats' = [stats EXCEPT !.processed = @ + 1, !.labeled = @ + 1]
    /\ pc' = IF LimitReached(args.limit, stats'.labeled) THEN "done" ELSE "traverse"
    /\ UNCHANGED <<repo, faults, args, calls, travVars, root_family, prefix_map,
                   parent_map, label_map, new_labels, adding, attempts, earlier, fn>>

(***************************************************************************)
(* A call of get_issue_hierarchy on a repository.                          *)
(***************************************************************************)
AtMostOne(S) == {{}} \cup {{x} : x \in S}
Flag(b) == IF b THEN 1 ELSE 0

\* settings away from the defaults: a project filter, a type filter, a small
\* max_depth, a missing issue, a failing repository call
Deviations(c) ==
    Flag(c.project # "") + Flag(c.issue_type # "")
      + Flag(c.max_depth # DefaultMaxDepth) + Cardinality(c.missing) + c.faults

HierarchyConfigs ==
    {c \in [project : {"", "P", "Q"}, issue_type : {"", "Epic"},
            max_depth : {SmallDepth, DefaultMaxDepth},
            missing : AtMostOne(Keys), stories : AtMostOne(Keys),
            faults : 0..MaxSize] :
        /\ c.issue_type = "" => c.stories = {}
        /\ Deviations(c) <= MaxSize}

NoText == [k \in Keys |-> <<>>]

HierarchyInit ==
    \E c \in HierarchyConfigs : \E E \in Graphs[MaxSize - Deviations(c)] :
        /\ repo = MakeRepo(Keys, E, c.missing, c.stories, NoText, NoText)
        /\ faults = c.faults
        /\ args = [root_issue_key |-> RootKey, project |-> c.project,
                   issue_type |-> c.issue_type, max_depth |-> c.max_depth,
                   dry_run |-> FALSE, limit |-> <<>>]
        /\ calls = <<>>
        /\ visited = {}
        /\ issue_cache = <<>>
        /\ stack = <<RootFrame(RootKey)>>
        /\ item = NoNode
        /\ out = <<>>
        /\ expanded = <<>>
        /\ pc = "traverse"
        /\ NoLabelling
        /\ fn = NoCall

HierarchyNext == Traverse \/ TraverseExpand \/ TraverseReturn \/ Collect

HierarchySpec == HierarchyInit /\ [][HierarchyNext]_vars

(***************************************************************************)
(* A call of get_issue_hierarchy with max_depth = DeepDepth, no filter and  *)
(* every key fetchable, on the graphs of at most MaxDeep edges that are     *)
(* parent/child edges or links of the one type that is not a clone type.    *)
(***************************************************************************)
PlainEdges == {e \in AllEdges : e.kind = ParentKind \/ LinkTypeList[e.kind] = Relates}

RECURSIVE PlainGraphsUpTo(_)
PlainGraphsUpTo(n) ==
    IF n = 0 THEN {{}}
    ELSE LET S == PlainGraphsUpTo(n - 1)
         IN  S \cup {E \in {G \cup {e} : G \in S, e \in PlainEdges} : WellFormed(E)}

DepthInit ==
    \E E \in PlainGraphsUpTo(MaxDeep) :
        /\ repo = MakeRepo(Keys, E, {}, {}, NoText, NoText)
        /\ faults = 0
        /\ args = [root_issue_key |-> RootKey, project |-> "", issue_type |-> "",
                   max_depth |-> DeepDepth, dry_run |-> FALSE, limit |-> <<>>]
        /\ calls = <<>>
        /\ visited = {}
        /\ issue_cache = <<>>
        /\ stack = <<RootFrame(RootKey)>>
        /\ item = NoNode
        /\ out = <<>>
        /\ expanded = <<>>
        /\ pc = "traverse"
        /\ NoLabelling
        /\ fn = NoCall

DepthNext ==
    \/ Traverse
    \/ TraverseExpand
    \/ TraverseReturn
    \/ Collect

DepthSpec == DepthInit /\ [][DepthNext]_vars

(***************************************************************************)
(* A call of label_roadmap_hierarchy on a repository: a chain of n issues  *)
(* under the root, each the child of the one before and titled with the    *)
(* roadmap prefix of its place, and a set of departures from that: a link  *)
(* or a clone link in place of a parent/child edge, a title with no prefix *)
(* or with a prefix of another family, labels already present, an issue of *)
(* another project, one more link, a project filter, a limit, a failing    *)
(* repository call.                                                        *)
(***************************************************************************)
GroupTexts == << <<"5">>, <<"2">>, <<"1","0">>, <<"3">>, <<"4">>, <<"6">>, <<"7">> >>
RECURSIVE CanonPrefix(_)
CanonPrefix(i) ==
    IF i = 1 THEN <<"C","1">> ELSE CanonPrefix(i - 1) \o <<".">> \o GroupTexts[i - 1]
FullLabels(i) == [j \in 1..i |-> StrLower(CanonPrefix(j))]

Departure(field, pos, alt, to) == [field |-> field, pos |-> pos, alt |-> alt, to |-> to]
Departures(n) ==
    {Departure("edge", i, a, 0) : i \in 2..n, a \in {"link", "clone"}}
    \cup {Departure("summary", i, a, 0) : i \in 1..n, a \in {"none", "foreign"}}
    \cup {Departure("labels", i, a, 0) : i \in 1..n, a \in {"full", "root"}}
    \cup {Departure("project", i, "Q", 0) : i \in 2..n}
    \cup {Departure("extra", e[1], "link", e[2]) :
            e \in {x \in (1..n) \X (1..n) : x[2] # x[1] /\ x[2] # x[1] + 1}}
    \cup {Departure("arg", 0, "project", 0), Departure("fault", 0, "", 0)}
    \cup {Departure("arg", 0, "limit", v) : v \in 0..MaxLimit}

\* one choice for each field of each issue, one limit
Compatible(D) ==
    \A x, y \in D :
        x.field = y.field /\ x.pos = y.pos /\ (x.field = "extra" => x.to = y.to)
          /\ (x.field = "arg" => x.alt = y.alt)
        => x = y

RECURSIVE DeparturesUpTo(_, _)
DeparturesUpTo(n, d) ==
    IF d <= 0 THEN {{}}
    ELSE LET S == DeparturesUpTo(n, d - 1)
         IN  S \cup {D \in {X \cup {x} : X \in S, x \in Departures(n)} : Compatible(D)}

Has(D, field, pos, alt) == \E x \in D : x.field = field /\ x.pos = pos /\ x.alt = alt

ChainKey(D, i) == IF Has(D, "project", i, "Q") THEN <<"Q", i>> ELSE <<"P", i>>
ChainEdges(D, n) ==
    {[src |-> ChainKey(D, i - 1), dst |-> ChainKey(D, i),
      kind |-> IF Has(D, "edge", i, "link") THEN 1
               ELSE IF Has(D, "edge", i, "clone") THEN 2 ELSE ParentKind] : i \in 2..n}
    \cup {[src |-> ChainKey(D, x.pos), dst |-> ChainKey(D, x.to), kind |-> 1] :
            x \in {y \in D : y.field = "extra"}}
ChainSummary(D, i) ==
    IF Has(D, "summary", i, "none") THEN <<"T","a","s","k">>
    ELSE IF Has(D, "summary", i, "foreign") THEN <<"D","2"," ","t">>
    ELSE CanonPrefix(i) \o <<" ","t">>
ChainLabels(D, i) ==
    IF Has(D, "labels", i, "full") THEN FullLabels(i)
    ELSE IF Has(D, "labels", i, "root") THEN FullLabels(1)
    ELSE <<>>
ChainRepo(D, n) ==
    LET pos(k) == CHOOSE i \in 1..n : ChainKey(D, i) = k
    IN  MakeRepo({ChainKey(D, i) : i \in 1..n}, ChainEdges(D, n), {}, {},
                 [k \in {ChainKey(D, i) : i \in 1..n} |-> ChainSummary(D, pos(k))],
                 [k \in {ChainKey(D, i) : i \in 1..n} |-> ChainLabels(D, pos(k))])
ChainLimit(D) ==
    IF \E x \in D : x.field = "arg" /\ x.alt = "limit"
    THEN <<(CHOOSE x \in D : x.field = "arg" /\ x.alt = "limit").to>>
    ELSE <<>>

\* the departures a chain of n issues may have: as many as the size leaves; the
\* longest chain may still have one summary that departs
ChainDepartures(n) ==
    IF n = MaxLabelSize
    THEN {D \in DeparturesUpTo(n, 1) : \A x \in D : x.field = "summary"}
    ELSE DeparturesUpTo(n, MaxLabelSize - n)

LabelInit ==
    \E n \in 1..MaxLabelSize : \E D \in ChainDepartures(n) :
      \E dry_run \in BOOLEAN :
        /\ repo = ChainRepo(D, n)
        /\ faults = IF Has(D, "fault", 0, "") THEN 1 ELSE 0
        /\ args = [root_issue_key |-> RootKey,
                   project |-> IF Has(D, "arg", 0, "project") THEN "P" ELSE "",
                   issue_type |-> "", max_depth |-> DefaultMaxDepth,
                   dry_run |-> dry_run, limit |-> ChainLimit(D)]
        /\ calls = <<>>
        /\ visited = {}
        /\ issue_cache = <<>>
        /\ stack = <<>>
        /\ item = NoNode
        /\ out = <<>>
        /\ expanded = <<>>
        /\ pc = "start"
        /\ NoLabelling
        /\ fn = NoCall

LabelNext ==
    \/ LabelStart
    \/ Traverse
    \/ TraverseExpand
    \/ TraverseReturn
    \/ LabelItem
    \/ AddLabelRead
    \/ AddLabelWrite
    \/ LabelCount

LabelSpec == LabelInit /\ [][LabelNext]_vars

(***************************************************************************)
(* label_roadmap_hierarchy run again with the same arguments on the        *)
(* repository as the run before left it.                                   *)
(***************************************************************************)
\* what is kept of a run that ended: how it ended, whether it broke out of the
\* traversal, what it returned and the calls it made
EndedRun ==
    [pc |-> pc, abandoned |-> stack # <<>>, stats |-> stats, calls |-> calls,
     attempts |-> attempts]

\* main, "label-roadmap", started once more
Rerun ==
    /\ pc \in {"done", "raised"}
    /\ Len(earlier) + 1 < MaxRuns
    /\ earlier' = Append(earlier, EndedRun)
    /\ calls' = <<>>
    /\ visited' = {}
    /\ issue_cache' = <<>>
    /\ stack' = <<>>
    /\ item' = NoNode
    /\ out' = <<>>
    /\ expanded' = <<>>
    /\ pc' = "start"
    /\ root_family' = ""
    /\ prefix_map' = <<>>
    /\ parent_map' = <<>>
    /\ label_map' = <<>>
    /\ stats' = NoStats
    /\ new_labels' = {}
    /\ adding' = NoAdd
    /\ attempts' = <<>>
    /\ UNCHANGED <<repo, faults, args, fn>>

RerunNext ==
    \/ LabelNext
    \/ Rerun

RerunSpec == LabelInit /\ [][RerunNext]_vars

(***************************************************************************)
(* label_roadmap_hierarchy while another writer adds a label of its own to *)
(* issues of the same repository.  The repository serves one request at a  *)
(* time, so the other writer's update falls between two requests of the    *)
(* run: also between the get_issue and the update_issue of one add_label.  *)
(***************************************************************************)
OtherLabel == <<"x">>
OtherWrites == {i \in DOMAIN calls : calls[i].op = "other_update"}

\* an update of an issue's labels that is not made by the run
OtherWriter ==
    /\ pc \in {"traverse", "apply", "write", "count"}
    /\ Cardinality(OtherWrites) < MaxOther
    /\ \E k \in DOMAIN repo :
          /\ OtherLabel \notin Range(repo[k].labels)
          /\ repo' = [repo EXCEPT ![k].labels = Append(@, OtherLabel)]
          /\ calls' = Append(calls, Call("other_update", k, repo'[k].labels, TRUE))
    /\ UNCHANGED <<faults, args, travVars, pc, labelVars, fn>>

ConcurrentNext ==
    \/ LabelNext
    \/ OtherWriter

\* live runs on the chains of at most MaxShared issues
ConcurrentInit ==
    /\ LabelInit
    /\ ~args.dry_run
    /\ Cardinality(DOMAIN repo) <= MaxShared

ConcurrentSpec == ConcurrentInit /\ [][ConcurrentNext]_vars

(***************************************************************************)
(* A call of _build_ancestry_labels: an issue of a chain of at most        *)
(* MaxChain issues, each the child of the one before, some of them with a  *)
(* prefix, at any depth, with or without labels computed for the others.   *)
(***************************************************************************)
BuildCall ==
    /\ pc = "call"
    /\ fn.name = "_build_ancestry_labels"
    /\ fn' = [fn EXCEPT
                !.result = BuildAncestryLabels(fn.args.issue_key, fn.args.prefix_map,
                                               fn.args.parent_map, fn.args.label_map,
                                               fn.args.depth),
                !.returned = TRUE]
    /\ pc' = "returned"
    /\ UNCHANGED <<repo, faults, args, calls, travVars, labelVars>>

BuildInit ==
    \E n \in 1..MaxChain : \E i \in 1..n : \E P \in SUBSET (1..n) :
      \E depth \in 0..(MaxChain - 1) : \E computed \in BOOLEAN :
        /\ fn = [name |-> "_build_ancestry_labels",
                 args |-> [issue_key |-> <<"P", i>>,
                           prefix_map |-> [k \in {<<"P", j>> : j \in P} |->
                                              CanonPrefix(k[2])],
                           parent_map |-> [k \in {<<"P", j>> : j \in 2..n} |->
                                              <<"P", k[2] - 1>>],
                           label_map |-> IF computed
                                         THEN [k \in {<<"P", j>> : j \in 1..(i - 1)} |->
                                                  << <<"z","9">> >>]
                                         ELSE <<>>,
                           depth |-> depth],
                 result |-> <<>>,
                 returned |-> FALSE]
        /\ pc = "call"
        /\ repo = <<>>
        /\ faults = 0
        /\ args = <<>>
        /\ calls = <<>>
        /\ visited = {}
        /\ issue_cache = <<>>
        /\ stack = <<>>
        /\ item = NoNode
        /\ out = <<>>
        /\ expanded = <<>>
        /\ NoLabelling

BuildNext == BuildCall

BuildSpec == BuildInit /\ [][BuildNext]_vars

(***************************************************************************)
(* _build_ancestry_labels called a second time with the same issue_key,    *)
(* prefix_map, parent_map and depth, and any of the label maps.            *)
(***************************************************************************)
\* the label maps a call for the i-th issue of the chain is given
LabelMaps(i) ==
    {<<>>, [k \in {<<"P", j>> : j \in 1..(i - 1)} |-> << <<"z","9">> >>]}

BuildAgain ==
    /\ pc = "returned"
    /\ fn.name = "_build_ancestry_labels"
    /\ \E label_map_ \in LabelMaps(fn.args.issue_key[2]) :
          fn' = [name |-> fn.name,
                 args |-> [fn.args EXCEPT !.label_map = label_map_],
                 result |-> BuildAncestryLabels(fn.args.issue_key, fn.args.prefix_map,
                                                fn.args.parent_map, label_map_,
                                                fn.args.depth),
                 returned |-> TRUE,
                 first |-> [label_map |-> fn.args.label_map, result |-> fn.result]]
    /\ pc' = "recomputed"
    /\ UNCHANGED <<repo, faults, args, calls, travVars, labelVars>>

RecomputeNext ==
    \/ BuildCall
    \/ BuildAgain

RecomputeSpec == BuildInit /\ [][RecomputeNext]_vars

(***************************************************************************)
(* A call of _extract_prefix: a title of at most MaxTitle characters, or   *)
(* one of two longer titles.                                               *)
(***************************************************************************)
TitleChars == {"C", "c", "1", "5", ".", " "}
ShipTheThing ==
    <<"C","1",".","5",".","2"," ","S","h","i","p"," ","t","h","e"," ","t","h","i","n","g">>
JustATitle == <<"J","u","s","t"," ","a"," ","t","i","t","l","e">>
Titles ==
    UNION {[1..m -> TitleChars] : m \in 0..MaxTitle} \cup {ShipTheThing, JustATitle}

ExtractCall ==
    /\ pc = "call"
    /\ fn.name = "_extract_prefix"
    /\ fn' = [fn EXCEPT !.result = ExtractPrefix(fn.args.summary), !.returned = TRUE]
    /\ pc' = "returned"
    /\ UNCHANGED <<repo, faults, args, calls, travVars, labelVars>>

ExtractInit ==
    \E summary \in Titles :
        /\ fn = [name |-> "_extract_prefix", args |-> [summary |-> summary],
                 result |-> <<>>, returned |-> FALSE]
        /\ pc = "call"
        /\ repo = <<>>
        /\ faults = 0
        /\ args = <<>>
        /\ calls = <<>>
        /\ visited = {}
        /\ issue_cache = <<>>
        /\ stack = <<>>
        /\ item = NoNode
        /\ out = <<>>
        /\ expanded = <<>>
        /\ NoLabelling

ExtractNext == ExtractCall

ExtractSpec == ExtractInit /\ [][ExtractNext]_vars

HierarchyFairSpec == HierarchySpec /\ WF_vars(HierarchyNext)

(***************************************************************************)
(* Properties of get_issue_hierarchy.                                      *)
(***************************************************************************)
RECURSIVE ChainTo(_, _)
\* the issues from the top of the parent chain down to k
ChainTo(k, parents) ==
    IF k \in DOMAIN parents THEN Append(ChainTo(parents[k], parents), k) ELSE <<k>>
Terminated == pc \in {"done", "raised"}
NoDuplicates(s) == \A i, j \in DOMAIN s : s[i] = s[j] => i = j
OutKeys == [i \in DOMAIN out |-> out[i].issue.key]
ExpandedKeys == [i \in DOMAIN expanded |-> expanded[i].key]
Count(s, x) == Cardinality({i \in DOMAIN s : s[i] = x})
AllCallsOk == \A i \in DOMAIN calls : calls[i].ok

\* j lists k in a link that is not a clone link
LinksTo(j, k) ==
    \E i \in DOMAIN repo[j].issuelinks :
        /\ repo[j].issuelinks[i].key = k
        /\ ~IsCloneType[repo[j].issuelinks[i].type]
\* the graph the traversal is meant to walk: non-clone links and parent/child edges
Successors(j) == {k \in DOMAIN repo : LinksTo(j, k) \/ repo[k].parent = j}
Predecessors(k) == {j \in DOMAIN repo : k \in Successors(j)}
RECURSIVE ReachableFrom(_)
ReachableFrom(S) ==
    LET T == S \cup UNION {Successors(j) : j \in S}
    IN  IF T = S THEN S ELSE ReachableFrom(T)
Reachable == ReachableFrom({args.root_issue_key})
Acyclic == \A k \in DOMAIN repo : k \notin ReachableFrom(Successors(k))
NoFilters == args.project = "" /\ args.issue_type = ""
AllFetchable == (\A k \in DOMAIN repo : repo[k].exists) /\ AllCallsOk /\ faults = 0

\* C1: in one call of get_issue_hierarchy no issue key is yielded more than once
\* and none is expanded into descendants more than once, whatever the graph.
C1_VisitedOnce == NoDuplicates(OutKeys) /\ NoDuplicates(ExpandedKeys)

\* a finished traversal that yielded an issue two yielded issues lead to
C1_Witness ==
    /\ pc = "done"
    /\ \E k \in Range(OutKeys) :
          Cardinality(Predecessors(k) \cap Range(OutKeys)) >= 2

\* a call with no filter, every issue present, no failing repository call
PlainCall == NoFilters /\ AllFetchable /\ args.max_depth >= 1
TwoCycle(a, b) == a # b /\ LinksTo(a, b) /\ LinksTo(b, a)

\* C2: get_issue_hierarchy terminates on every graph, cyclic ones included; where
\* the root A and an issue B link to each other, a finished plain call has yielded
\* A once and B once, and exactly A then B when the graph is that cycle alone.
C2_Terminates ==
    /\ <>Terminated
    /\ [](pc = "done" /\ PlainCall =>
            \A b \in DOMAIN repo :
                TwoCycle(args.root_issue_key, b) =>
                    /\ Count(OutKeys, args.root_issue_key) = 1
                    /\ Count(OutKeys, b) = 1
                    /\ (Successors(args.root_issue_key) = {b}
                          /\ Successors(b) = {args.root_issue_key}
                        => OutKeys = <<args.root_issue_key, b>>))

\* the traversal of the two-item cycle alone has finished
C2_Witness ==
    /\ pc = "done"
    /\ PlainCall
    /\ \E b \in DOMAIN repo :
          /\ TwoCycle(args.root_issue_key, b)
          /\ Successors(args.root_issue_key) = {b}
          /\ Successors(b) = {args.root_issue_key}
          /\ OutKeys = <<args.root_issue_key, b>>

RECURSIVE LongestPath(_)
\* edges of the longest path from the root to k, in an acyclic graph
LongestPath(k) ==
    LET P == Predecessors(k) \cap Reachable
    IN  IF P = {} THEN 0
        ELSE LET n == CHOOSE x \in {LongestPath(p) : p \in P} :
                         \A p \in P : LongestPath(p) <= x
             IN  n + 1
ChildrenWithinQuery ==
    \A j \in DOMAIN repo :
        Cardinality({k \in DOMAIN repo : repo[k].parent = j}) <= ChildMaxResults

\* C3 as stated: on an acyclic graph, with no filter and every key fetchable, a
\* finished traversal has yielded every issue reachable from the root exactly once.
C3_Original ==
    pc = "done" /\ Acyclic /\ NoFilters /\ AllFetchable =>
        \A k \in Reachable : Count(OutKeys, k) = 1

\* C3 (amended): on an acyclic graph, with no filter, every key fetchable and no
\* issue with more than 100 children, a finished traversal has yielded exactly
\* once every reachable issue to which no path from the root has more than
\* max_depth edges.
C3_ReachableYieldedOnce ==
    pc = "done" /\ Acyclic /\ NoFilters /\ AllFetchable /\ ChildrenWithinQuery =>
        \A k \in Reachable :
            LongestPath(k) <= args.max_depth => Count(OutKeys, k) = 1

\* a finished plain traversal of an acyclic graph with an issue reached by two
\* paths, and one with an issue beyond a small max_depth
C3_Witness ==
    /\ pc = "done" /\ Acyclic /\ NoFilters /\ AllFetchable
    /\ \/ /\ \E k \in Reachable : Cardinality(Predecessors(k) \cap Reachable) >= 2
          /\ \A k \in Reachable : LongestPath(k) <= args.max_depth
          /\ \A k \in Reachable : Count(OutKeys, k) = 1
       \/ /\ args.max_depth = SmallDepth
          /\ \E k \in Reachable : LongestPath(k) = SmallDepth /\ Count(OutKeys, k) = 1

\* C4: a yielded root has depth 0, relationship root and no parent_key; any other
\* yielded node names as parent_key the node that expanded it, which lists it as
\* a link target or a child, and has that node's depth plus 1.
C4_DepthAndParent ==
    \A i \in DOMAIN out :
        LET node == out[i] IN
        IF node.issue.key = args.root_issue_key
        THEN node.depth = 0 /\ node.relationship = "root" /\ node.parent_key = NoKey
        ELSE /\ node.relationship \in {"linked", "child"}
             /\ node.relationship = "linked" => LinksTo(node.parent_key, node.issue.key)
             /\ node.relationship = "child" => repo[node.issue.key].parent = node.parent_key
             /\ \E j \in DOMAIN expanded :
                   /\ expanded[j].key = node.parent_key
                   /\ node.depth = expanded[j].depth + 1

\* a node was yielded two levels below the root
C4_Witness ==
    \E i \in DOMAIN out :
        /\ out[i].depth = 2
        /\ out[i].parent_key \in Range(OutKeys) \ {args.root_issue_key}

\* C5: a link whose type name contains "clone" in any letter case is never
\* followed: every linked candidate and every node yielded as linked is the
\* target of a link of its parent whose type name does not contain "clone".
NonCloneNamedLink(j, k) ==
    \E i \in DOMAIN repo[j].issuelinks :
        /\ repo[j].issuelinks[i].key = k
        /\ ~NamedClone(repo[j].issuelinks[i].type)
C5_CloneNeverFollowed ==
    /\ \A i \in DOMAIN out :
          out[i].relationship = "linked" =>
              NonCloneNamedLink(out[i].parent_key, out[i].issue.key)
    /\ pc = "traverse" =>
          \A n \in DOMAIN stack : \A i \in DOMAIN stack[n].descendants :
              stack[n].descendants[i].relationship = "linked" =>
                  NonCloneNamedLink(stack[n].issue_key, stack[n].descendants[i].key)

\* a finished traversal yielded an issue with a clone link to an existing issue
\* (one named in capitals, one not) and did not yield the target
C5_Witness ==
    /\ pc = "done"
    /\ \E j \in Range(OutKeys) : \E i \in DOMAIN repo[j].issuelinks :
          /\ repo[j].issuelinks[i].type = UpperClone
          /\ repo[repo[j].issuelinks[i].key].exists
          /\ repo[j].issuelinks[i].key \notin Range(OutKeys)

\* the keys the repository reported as not found
NotFound == {k \in DOMAIN issue_cache : issue_cache[k] = NoIssue}
\* the step in which get_issue reports k as not found
ReportsNotFound(k) ==
    /\ k \notin DOMAIN issue_cache
    /\ k \in DOMAIN issue_cache'
    /\ issue_cache'[k] = NoIssue

\* C17: a key reported as not found during the traversal is not yielded and not
\* expanded, no child query is made for it and no node has it as parent_key; the
\* step that finds it missing raises nothing and leaves the enclosing traverse at
\* its next candidate.
C17_NotFoundIsEmptySubtree ==
    /\ [](/\ \A i \in DOMAIN out : out[i].issue # NoIssue
          /\ \A k \in NotFound :
                /\ k \notin Range(OutKeys)
                /\ k \notin Range(ExpandedKeys)
                /\ \A i \in DOMAIN out : out[i].parent_key # k
                /\ \A i \in DOMAIN calls :
                      calls[i].op = "query_children" => calls[i].key # k)
    /\ [][\A k \in Keys :
            ReportsNotFound(k) =>
                /\ pc' = "traverse"
                /\ stack' = SetTop(stack, [Top EXCEPT !.next = @ + 1])
                /\ out' = out]_vars

\* the traversal has finished after a key with an issue below it was reported as
\* not found: the issue below, which nothing else leads to, was not yielded
C17_Witness ==
    /\ pc = "done"
    /\ \E k \in NotFound :
          /\ Call("get_issue", k, <<>>, FALSE) \in Range(calls)
          /\ \E j \in DOMAIN repo :
                /\ repo[j].parent = k \/ LinksTo(k, j)
                /\ Predecessors(j) = {k}
                /\ j \notin Range(OutKeys)
                /\ j \notin DOMAIN issue_cache

\* the nodes for which the batch fetch of the linked candidates or the child
\* query failed
FailedDiscovery ==
    {calls[i].key : i \in {j \in DOMAIN calls :
                              calls[j].op = "query_children" /\ ~calls[j].ok}}
    \cup {calls[i + 1].key : i \in {j \in DOMAIN calls :
                                      /\ calls[j].op = "query_keys" /\ ~calls[j].ok
                                      /\ j < Len(calls)}}

\* C18: a node for which the batch fetch of the linked candidates or the child
\* query failed contributes no descendant: its traverse has none to recurse into
\* and no node is yielded with it as parent_key; and a failure while fetching a
\* linked or child candidate never aborts the traversal, so only a failed fetch of
\* the root can raise.
C18_DiscoveryFailureSwallowed ==
    /\ \A p \in FailedDiscovery :
          /\ \A i \in DOMAIN out : out[i].parent_key # p
          /\ \A f \in DOMAIN stack :
                stack[f].issue_key = p /\ stack[f].at = "recurse"
                => stack[f].descendants = <<>>
    /\ pc = "raised" => calls[Len(calls)].key = args.root_issue_key

\* the times the repository was asked for, or sent, the data of k: by get_issue,
\* by a batched key query naming k, as a result of a child query
Requests(k) ==
    Cardinality({i \in DOMAIN calls :
        \/ calls[i].op = "get_issue" /\ calls[i].key = k
        \/ calls[i].op = "query_keys" /\ k \in Range(calls[i].arg)
        \/ /\ calls[i].op = "query_children" /\ calls[i].ok
           /\ k \in Range(QueryChildren(calls[i].key))})

\* C19: within one call of get_issue_hierarchy the data of a key is requested
\* from the repository at most once, single fetches, batched key queries and
\* child-query results counted together; so a key found missing is not
\* requested again.
C19_RequestedOnce == \A k \in DOMAIN repo : Requests(k) <= 1

\* the traversal tree: the node each entered node was entered from, and how
Entries ==
    [i \in DOMAIN out |-> [key |-> out[i].issue.key, relationship |-> out[i].relationship,
                           parent_key |-> out[i].parent_key]]
    \o [i \in DOMAIN expanded |-> [key |-> expanded[i].key,
                                    relationship |-> expanded[i].relationship,
                                    parent_key |-> expanded[i].parent_key]]
EntryOf(k) == Entries[CHOOSE i \in DOMAIN Entries : Entries[i].key = k]
EnteredFrom ==
    [k \in {Entries[i].key : i \in {j \in DOMAIN Entries : Entries[j].parent_key # NoKey}}
        |-> EntryOf(k).parent_key]
\* the nodes from the root down to k, for each key k of the tree
Branches ==
    LET from == EnteredFrom
    IN  [k \in {Entries[i].key : i \in DOMAIN Entries} |-> ChainTo(k, from)]
\* how each node of the tree was entered: root, linked or child
Relationships ==
    [k \in {Entries[i].key : i \in DOMAIN Entries} |-> EntryOf(k).relationship]
\* the branch b passes through p
Below(p, b) == p \in Range(b)
\* how the node of the branch b that was entered from p was entered, "" if none was
Via(p, b, rel) ==
    LET at == {j \in DOMAIN b : b[j] = p /\ j < Len(b)}
    IN  IF at = {} THEN "" ELSE rel[b[(CHOOSE j \in at : TRUE) + 1]]

\* C20: the yielded sequence is pre-order with linked items first: a node is
\* yielded before every node below it, and of the nodes below an expanded node
\* those reached through its linked candidates are yielded before those reached
\* through its child candidates.  Stated of the states in which a node has just
\* been yielded or the traversal has ended: the sequence changes in no other.
C20_PreOrderLinkedFirst ==
    pc \in {"yielded", "done", "raised"} =>
    LET branch == Branches
        rel == Relationships
        via == [k \in Range(OutKeys) |->
                   [p \in Range(ExpandedKeys) |-> Via(p, branch[k], rel)]]
    IN  \A i, j \in DOMAIN out :
            LET a == out[i].issue.key
                b == out[j].issue.key
            IN  i >= j /\ a # b =>
                  /\ ~Below(a, branch[b])
                  /\ \A p \in Range(ExpandedKeys) :
                        ~(via[a][p] = "linked" /\ via[b][p] = "child")

\* a finished traversal yielded a node two levels below the root through a link
\* of the root, and after it a child of the root
C20_Witness ==
    /\ pc = "done"
    /\ \E i, j \in DOMAIN out :
          /\ i < j
          /\ out[i].depth = 2
          /\ Via(args.root_issue_key, Branches[out[i].issue.key], Relationships) = "linked"
          /\ out[j].depth = 1
          /\ out[j].relationship = "child"

\* C21: with a type filter set, no item of another type is yielded, and the items
\* of another type are still traversed: a finished traversal (no project filter,
\* every key fetchable, acyclic graph) has yielded every item of the type to which
\* no path from the root, by links or parent/child edges, through items of any
\* type, has more than max_depth edges.
C21_FilterReportsOnly ==
    args.issue_type # "" =>
        /\ \A i \in DOMAIN out : out[i].issue.issuetype = args.issue_type
        /\ pc = "done" /\ args.project = "" /\ Acyclic /\ AllFetchable
              /\ ChildrenWithinQuery
           => \A k \in Reachable :
                 repo[k].issuetype = args.issue_type /\ LongestPath(k) <= args.max_depth
                 => k \in Range(OutKeys)

\* the root's issue was fetched and passes the type filter
RootReportable ==
    /\ Len(calls) >= 1
    /\ calls[1] = Call("get_issue", args.root_issue_key, <<>>, TRUE)
    /\ ShouldYield(Issue(args.root_issue_key))

\* C24: with a project filter P no key outside P is added as a linked candidate,
\* so every node yielded as linked has a key of project P; the root, once fetched
\* (and of the filtered type, if a type filter is set), is yielded first whatever
\* its project.
C24_LinkedInsideProject ==
    args.project # "" =>
        /\ \A i \in DOMAIN out :
              out[i].relationship = "linked" => out[i].issue.key[1] = args.project
        /\ \A n \in DOMAIN stack : \A i \in DOMAIN stack[n].descendants :
              stack[n].descendants[i].relationship = "linked" =>
                  stack[n].descendants[i].key[1] = args.project
        /\ RootReportable =>
              /\ Len(out) >= 1
              /\ out[1].issue.key = args.root_issue_key
              /\ out[1].relationship = "root"

\* a finished traversal with a filter on another project than the root's yielded
\* the root and a linked issue of the project, and not the issue of the root's
\* own project that the root links to as well
C24_Witness ==
    /\ pc = "done"
    /\ args.project # "" /\ args.project # args.root_issue_key[1]
    /\ Len(out) >= 2
    /\ out[1].issue.key = args.root_issue_key
    /\ \E i \in DOMAIN out :
          out[i].relationship = "linked" /\ out[i].issue.key[1] = args.project
    /\ \E k \in DOMAIN repo :
          /\ LinksTo(args.root_issue_key, k)
          /\ repo[k].exists
          /\ k[1] # args.project
          /\ k \notin Range(OutKeys)

RECURSIVE Within(_)
\* the issues some path of at most n edges leads to from the root
Within(n) ==
    IF n = 0 THEN {args.root_issue_key}
    ELSE LET S == Within(n - 1) IN S \cup UNION {Successors(j) : j \in S}

\* C27: with no filter and every key fetchable, a finished traversal has yielded
\* every item whose shortest path from the root has at most max_depth edges, also
\* when the walk reached an ancestor of the item first by a longer path, at depth
\* max_depth, and marked it visited there.
C27_ShortestPathYielded ==
    pc = "done" /\ NoFilters /\ AllFetchable /\ ChildrenWithinQuery =>
        \A k \in Within(args.max_depth) : k \in Range(OutKeys)

(***************************************************************************)
(* Properties of label_roadmap_hierarchy.                                  *)
(***************************************************************************)
LabelWrites == {i \in DOMAIN calls : calls[i].op = "update_issue"}
WrittenKeys == {calls[i].key : i \in LabelWrites}
InAddLabel == pc \in {"apply", "write"}

\* C6: label_roadmap_hierarchy called with dry_run=true never runs add_label and
\* never calls update_issue, whatever the hierarchy, the project filter, the limit.
C6_DryRunNeverWrites ==
    args.dry_run => ~InAddLabel /\ LabelWrites = {}

\* a dry run that ended after previewing new labels for two items
C6_Witness ==
    /\ args.dry_run
    /\ pc = "done"
    /\ stats.labeled >= 2
    /\ \E k \in DOMAIN label_map : Range(label_map[k]) \ Range(repo[k].labels) # {}

LiveLimit == ~args.dry_run /\ args.limit # <<>> /\ args.limit[1] >= 1

\* C7: in live mode with limit=N, N >= 1, labeled never passes N; the run returns
\* the moment labeled reaches N, with the traversal abandoned where it stands;
\* a run that returns with labeled below N has exhausted the traversal; at most N
\* items are ever written to and nothing is written once labeled is N.
C7_LimitStops ==
    /\ [](LiveLimit =>
            /\ stats.labeled <= args.limit[1]
            /\ Cardinality(WrittenKeys) <= args.limit[1]
            /\ stats.labeled = args.limit[1] => pc = "done" /\ stack # <<>>
            /\ pc = "done" /\ stats.labeled < args.limit[1] => stack = <<>>)
    /\ [][LiveLimit /\ stats.labeled = args.limit[1] => calls' = calls /\ repo' = repo]_vars

\* a live run with limit 2 or more has returned at the limit while a child of a
\* handled issue, with a prefix and no labels, was still to come
C7_Witness ==
    /\ LiveLimit
    /\ args.limit[1] >= 2
    /\ pc = "done"
    /\ stats.labeled = args.limit[1]
    /\ \E k \in DOMAIN repo :
          /\ k \notin Range(OutKeys)
          /\ repo[k].parent \in Range(OutKeys)
          /\ repo[k].labels = <<>>
          /\ ExtractPrefix(repo[k].summary) # <<>>

\* the handled items whose labels, as streamed, held all their ancestry labels
AlreadyLabelled ==
    {i \in DOMAIN out :
        /\ out[i].issue.key \in DOMAIN label_map
        /\ Range(label_map[out[i].issue.key]) \subseteq Range(out[i].issue.labels)}

\* C8: an item streamed with all of its ancestry labels already present is never
\* written to, and the skipped counter of a run that returned is the number of
\* such items.
C8_SkippedCounted ==
    /\ \A i \in AlreadyLabelled : out[i].issue.key \notin WrittenKeys
    /\ pc = "done" => stats.skipped = Cardinality(AlreadyLabelled)

\* the root's summary does not start with an uppercase letter and a digit
RootWithoutPrefix ==
    LET summary == repo[args.root_issue_key].summary
    IN  ~(Len(summary) >= 2 /\ IsUpper(summary[1]) /\ summary[2] \in Digits)

\* C9: when the root's summary has no extractable prefix, label_roadmap_hierarchy
\* raises straight after fetching the root: the traversal never starts, no
\* hierarchy query is issued, nothing is yielded and no label is written.
C9_RootWithoutPrefixRaises ==
    RootWithoutPrefix /\ pc # "start" =>
        /\ pc = "raised"
        /\ Len(calls) = 1
        /\ calls[1] \in {Call("get_issue", args.root_issue_key, <<>>, ok) : ok \in BOOLEAN}
        /\ stack = <<>> /\ visited = {} /\ out = <<>> /\ issue_cache = <<>>
        /\ stats = NoStats

\* the run raised on a fetched root without prefix that has issues below it
C9_Witness ==
    /\ RootWithoutPrefix
    /\ pc = "raised"
    /\ Len(calls) = 1 /\ calls[1].ok
    /\ \E k \in DOMAIN repo : repo[k].parent = args.root_issue_key

LowerText(t) == [j \in DOMAIN t |-> IF t[j] = "C" THEN "c" ELSE t[j]]

\* the nodes streamed to the run whose labels have been computed
Handled == {i \in DOMAIN out : out[i].issue.key \in DOMAIN label_map}
\* the issues from the root down to k along the parent keys of the stream
Lineage(k) == ChainTo(k, parent_map)
AllWithPrefix(k) == \A j \in DOMAIN Lineage(k) : Lineage(k)[j] \in DOMAIN prefix_map
RootParentSelf(k) ==
    << LowerText(prefix_map[Lineage(k)[1]]),
       LowerText(prefix_map[parent_map[k]]),
       LowerText(prefix_map[k]) >>

\* C11 as stated: in a run over a chain of 5 issues each with a prefix, the labels
\* computed for every item at depth 3 or deeper are the root's prefix, the
\* parent's prefix and the item's own prefix.
C11_Original ==
    \A i \in Handled :
        LET k == out[i].issue.key IN
        out[i].depth >= 3 /\ AllWithPrefix(k) => label_map[k] = RootParentSelf(k)

\* C11 (amended): on a chain of issues each with a prefix, the labels computed at
\* depth 3 are the root's prefix, the parent's prefix and the item's own prefix;
\* at depth 4 or more they are the three labels computed for the parent, so the
\* item's own prefix is not among them.
C11_ThreeLabels ==
    \A i \in Handled :
        LET k == out[i].issue.key IN
        out[i].depth >= 3 /\ AllWithPrefix(k) =>
            /\ Len(label_map[k]) = 3
            /\ out[i].depth = 3 => label_map[k] = RootParentSelf(k)
            /\ out[i].depth >= 4 =>
                  /\ label_map[k] = label_map[parent_map[k]]
                  /\ label_map[k][1] = LowerText(prefix_map[Lineage(k)[1]])

\* the run over a chain of 5 issues, each with a prefix, has handled the items at
\* depth 3 and depth 4
C11_Witness ==
    /\ \E i \in Handled : out[i].depth = 3 /\ AllWithPrefix(out[i].issue.key)
    /\ \E i \in Handled :
          /\ out[i].depth = 4
          /\ AllWithPrefix(out[i].issue.key)
          /\ Len(Lineage(out[i].issue.key)) = 5
          /\ label_map[out[i].issue.key] = label_map[parent_map[out[i].issue.key]]

\* C12: every item streamed at depth 4 or more gets exactly the label list
\* computed for its traversal parent, whether its own summary has a prefix of the
\* root's family, a prefix of another family or none.
C12_DeepInherits ==
    \A i \in Handled :
        out[i].depth >= 4 =>
            /\ out[i].parent_key \in DOMAIN label_map
            /\ label_map[out[i].issue.key] = label_map[out[i].parent_key]

\* an item at depth 4 with a prefix of its own has been handled: the prefix is not
\* among its labels
C12_Witness ==
    \E i \in Handled :
        /\ out[i].depth = 4
        /\ label_map[out[i].issue.key] = label_map[out[i].parent_key]
        /\ Len(label_map[out[i].issue.key]) = 3
        /\ out[i].issue.key \in DOMAIN prefix_map
        /\ LowerText(prefix_map[out[i].issue.key]) \notin Range(label_map[out[i].issue.key])

\* C13: for every item streamed during a labelling run (the root then has a valid
\* prefix) the computed list has 1 to 3 entries, none with an uppercase letter.
C13_OneToThreeLowercase ==
    \A k \in DOMAIN label_map :
        /\ Len(label_map[k]) \in 1..3
        /\ \A j \in DOMAIN label_map[k] :
              \A c \in DOMAIN label_map[k][j] : ~IsUpper(label_map[k][j][c])

\* the run has computed a list of one label for an item below the root and a list
\* of three for another
C13_Witness ==
    /\ \E i \in Handled : out[i].depth >= 1 /\ Len(label_map[out[i].issue.key]) = 1
    /\ \E i \in Handled : Len(label_map[out[i].issue.key]) = 3

\* the handled items, other than the root, whose summary has a prefix that begins
\* with another character than the root's family
Foreign ==
    {i \in Handled :
        LET prefix == ExtractPrefix(out[i].issue.summary) IN
        /\ out[i].issue.key # args.root_issue_key
        /\ prefix # <<>>
        /\ prefix[1] # root_family}

\* C22: an item other than the root whose extracted prefix begins with another
\* character than the root's family is treated as having no prefix: it gets no
\* prefix_map entry, its prefix (as written or lowercased) is in no label list
\* computed for it or for an item below it, and every computed label begins with
\* the lowercased root family character.
C22_ForeignPrefixIgnored ==
    /\ \A i \in Foreign :
          LET k == out[i].issue.key
              prefix == ExtractPrefix(out[i].issue.summary)
          IN  /\ k \notin DOMAIN prefix_map
              /\ \A j \in Handled :
                    k \in Range(Lineage(out[j].issue.key)) =>
                        /\ prefix \notin Range(label_map[out[j].issue.key])
                        /\ StrLower(prefix) \notin Range(label_map[out[j].issue.key])
    /\ \A k \in DOMAIN label_map : \A j \in DOMAIN label_map[k] :
          /\ label_map[k][j] # <<>>
          /\ label_map[k][j][1] = LowerChar(root_family)

\* labels were computed for an item with a prefix of another family and for a
\* child of it with a prefix of the root's family: the child has two labels
C22_Witness ==
    \E i \in Foreign : \E j \in Handled :
        /\ out[j].parent_key = out[i].issue.key
        /\ out[j].issue.key \in DOMAIN prefix_map
        /\ Len(label_map[out[j].issue.key]) = 2
        /\ Len(label_map[out[i].issue.key]) = 1

UpdateCalls(log) == {i \in DOMAIN log : log[i].op = "update_issue"}
\* no update_issue of the log sends a label twice
NothingAddedTwice(log) == \A i \in UpdateCalls(log) : NoDuplicates(log[i].arg)
LiveNoLimit == ~args.dry_run /\ ~LiveLimit
AllOk(log) == \A i \in DOMAIN log : log[i].ok

AttemptsOn(k) == {i \in DOMAIN attempts : attempts[i].key = k}
FailedAttempts == {i \in DOMAIN attempts : ~attempts[i].ok}
\* the labels computed for the node that the issue, as streamed, did not have
Needed(i) == Range(label_map[out[i].issue.key]) \ Range(out[i].issue.labels)
BeingLabelled(k) == pc \in {"apply", "write"} /\ item.issue.key = k

\* C16: in live mode, once the run is through with an item, add_label has ended
\* once for each label computed for it that it did not have, and for no other;
\* errors is at all times the number of add_label calls that failed; the step
\* that ends an add_label call, failed or not, goes on to the item's next label
\* or to the count, never out of the run.
C16_ErrorsCounted ==
    /\ [](/\ stats.errors = Cardinality(FailedAttempts)
          /\ ~args.dry_run =>
                \A i \in Handled :
                    LET k == out[i].issue.key IN
                    ~BeingLabelled(k) =>
                        /\ {attempts[a].label : a \in AttemptsOn(k)} = Needed(i)
                        /\ Cardinality(AttemptsOn(k)) = Cardinality(Needed(i)))
    /\ [][attempts' # attempts => pc' \in {"apply", "count"}]_vars

\* the run returned with errors = 1 after an add_label call on an item failed and
\* a later one on the same item succeeded
C16_Witness ==
    /\ pc = "done"
    /\ stats.errors = 1
    /\ \E a, b \in DOMAIN attempts :
          /\ a < b
          /\ attempts[a].key = attempts[b].key
          /\ ~attempts[a].ok
          /\ attempts[b].ok

\* C23: processed is incremented for every node the run consumes from the
\* traversal and labeled only for the nodes with a missing label: when the run
\* returns, processed is the number of streamed nodes handled, labeled the number
\* of those that lacked a label, and processed = labeled + skipped.
C23_ProcessedCountsHandled ==
    pc = "done" =>
        /\ stats.processed = Cardinality(Handled)
        /\ stats.labeled = Cardinality({i \in Handled : Needed(i) # {}})
        /\ stats.processed = stats.labeled + stats.skipped

\* the issues that still have the label the other writer gave them
KeepsOther(r) == {k \in DOMAIN r : OtherLabel \in Range(r[k].labels)}
\* the issues the other writer's label has been taken from again
LostOther == {calls[i].key : i \in OtherWrites} \ KeepsOther(repo)

\* C25: add_label reads the labels, then writes them back with the new one: the
\* write sends the labels as they were read, whatever the repository holds by
\* then.  A label another writer added is therefore removed by the run only in
\* the write of an add_label on that issue that had read the labels before the
\* other writer added its own, and by no other step.
C25_ReadThenWrite ==
    /\ [][\A k \in DOMAIN repo :
            repo'[k].labels # repo[k].labels /\ calls'[Len(calls')].op = "update_issue" =>
                /\ pc = "write" /\ item.issue.key = k
                /\ repo'[k].labels = Append(adding.current_labels, adding.label)]_vars
    /\ [][\A k \in KeepsOther(repo) \ KeepsOther(repo') :
            /\ pc = "write" /\ item.issue.key = k
            /\ OtherLabel \notin Range(adding.current_labels)]_vars

\* another writer's label was added to an issue after add_label had read the
\* issue's labels, and the write of add_label has removed it
C25_Witness ==
    /\ LostOther # {}
    /\ \E i \in OtherWrites :
          /\ i > 1 /\ i < Len(calls)
          /\ calls[i - 1] = Call("get_issue", calls[i].key, <<>>, TRUE)
          /\ calls[i + 1].op = "update_issue" /\ calls[i + 1].key = calls[i].key
          /\ calls[i + 1].ok
          /\ calls[i].key \in LostOther

\* a live run without limit has returned with errors = 0
CleanLiveRun == pc = "done" /\ LiveNoLimit /\ stats.errors = 0
Carries(k, labels) == Range(labels) \subseteq Range(repo[k].labels)

\* C28: after a live run without limit that returned with errors = 0, with no
\* other writer, every item the traversal yielded carries in the repository every
\* label of the ancestry label list computed for it.
C28_YieldedCarryLabels ==
    CleanLiveRun =>
        \A i \in DOMAIN out :
            /\ out[i].issue.key \in DOMAIN label_map
            /\ Carries(out[i].issue.key, label_map[out[i].issue.key])

\* such a run has written two labels or more to one item and one or more to
\* another, and left alone an item that had its labels
C28_Witness ==
    /\ CleanLiveRun
    /\ \E k \in WrittenKeys :
          Cardinality({i \in LabelWrites : calls[i].key = k}) >= 2
    /\ Cardinality(WrittenKeys) >= 2
    /\ \E i \in DOMAIN out : out[i].issue.key \notin WrittenKeys
    /\ \A i \in DOMAIN out : Carries(out[i].issue.key, label_map[out[i].issue.key])

Added(k) == Range(repo'[k].labels) \ Range(repo[k].labels)

\* C29: the run only ever adds labels.  With no other writer, no step takes a
\* label from an item or changes another field, so at every point each item's
\* label set includes the one it had before the run; a step that adds a label
\* adds it to the item being labelled, which the traversal yielded, and the label
\* is one of the ancestry labels computed for that item; items never yielded are
\* left as they were.
C29_OnlyAddsLabels ==
    [][\A k \in DOMAIN repo :
          /\ Range(repo[k].labels) \subseteq Range(repo'[k].labels)
          /\ repo'[k] = [repo[k] EXCEPT !.labels = repo'[k].labels]
          /\ repo'[k] # repo[k] =>
                /\ k = item.issue.key
                /\ k \in Range(OutKeys)
                /\ Added(k) # {}
                /\ Added(k) \subseteq Range(label_map[k])]_vars

\* a run has returned after adding a label to an item that had one, with an item
\* of the repository never yielded
C29_Witness ==
    /\ pc = "done"
    /\ \E i \in DOMAIN out :
          /\ out[i].issue.labels # <<>>
          /\ out[i].issue.key \in WrittenKeys
          /\ Range(out[i].issue.labels) \subseteq Range(repo[out[i].issue.key].labels)
          /\ Range(repo[out[i].issue.key].labels) \ Range(out[i].issue.labels) # {}
    /\ \E k \in DOMAIN repo : k \notin Range(OutKeys)

ZeroLimit == args.limit = <<0>>
Lacking == {i \in DOMAIN out : i \in Handled /\ Needed(i) # {}}

\* C30: called with limit=0 the run behaves as with no limit: counting a labelled
\* item never ends the run, which returns only when the traversal is exhausted;
\* by then every yielded item was handled, labeled counts every item that lacked
\* an ancestry label, and in live mode add_label was called on each of them for
\* each label it lacked, so with errors = 0 all of them carry their labels.
C30_ZeroLimitIsNoLimit ==
    /\ [](ZeroLimit /\ pc = "done" =>
            /\ stack = <<>>
            /\ Handled = DOMAIN out
            /\ stats.labeled = Cardinality(Lacking)
            /\ ~args.dry_run =>
                  \A i \in DOMAIN out :
                      {attempts[a].label : a \in AttemptsOn(out[i].issue.key)} = Needed(i)
            /\ ~args.dry_run /\ stats.errors = 0 =>
                  \A i \in DOMAIN out :
                      Carries(out[i].issue.key, label_map[out[i].issue.key]))
    /\ [][ZeroLimit /\ pc = "count" => pc' = "traverse"]_vars

\* a live run with limit=0 has returned after labelling two items or more
C30_Witness ==
    /\ ZeroLimit
    /\ ~args.dry_run
    /\ pc = "done"
    /\ stats.labeled >= 2
    /\ Cardinality(WrittenKeys) >= 2
    /\ \A i \in DOMAIN out : Carries(out[i].issue.key, label_map[out[i].issue.key])

(***************************************************************************)
(* Properties of _build_ancestry_labels.                                   *)
(***************************************************************************)
\* the lowercased prefixes of the chain's issues that have one, root first
PrefixChain(a) ==
    LET with == SelectSeq(ChainTo(a.issue_key, a.parent_map),
                          LAMBDA k : k \in DOMAIN a.prefix_map)
    IN  [j \in DOMAIN with |-> LowerText(a.prefix_map[with[j]])]
BuildReturned == pc = "returned" /\ fn.name = "_build_ancestry_labels" /\ fn.returned

\* C10: at depth 0 to 3 _build_ancestry_labels returns the lowercased prefixes of
\* the issues of the parent chain that have a prefix, root first; a chain of more
\* than 3 entries is returned as its first, second-to-last and last entry; root
\* C1, mid C1.5, leaf C1.5.2 at depth 2 gives [c1, c1.5, c1.5.2].
C10_AncestryChain ==
    BuildReturned /\ fn.args.depth \in 0..3 =>
        LET chain == PrefixChain(fn.args)
            n == Len(chain)
        IN  /\ fn.result = IF n > 3 THEN <<chain[1], chain[n - 1], chain[n]>> ELSE chain
            /\ fn.args.issue_key = <<"P", 3>> /\ DOMAIN fn.args.prefix_map
                    = {<<"P", 1>>, <<"P", 2>>, <<"P", 3>>} /\ fn.args.depth = 2
               => fn.result = << <<"c","1">>, <<"c","1",".","5">>,
                                 <<"c","1",".","5",".","2">> >>

\* a chain of four prefixes returned as three labels at depth 3
C10_Witness ==
    /\ BuildReturned
    /\ fn.args.depth = 3
    /\ Len(PrefixChain(fn.args)) = 4
    /\ fn.result = << <<"c","1">>, <<"c","1",".","5",".","2">>,
                      <<"c","1",".","5",".","2",".","1","0">> >>

Recomputed == pc = "recomputed" /\ fn.name = "_build_ancestry_labels"
\* the call is one that takes the labels computed for the parent
Inherits(a) ==
    /\ a.depth >= 4
    /\ a.issue_key \in DOMAIN a.parent_map
    /\ a.parent_map[a.issue_key] \in DOMAIN a.label_map

\* C26 as stated: two computations of _build_ancestry_labels with the same prefix
\* map, parent map, key and depth return the same ordered list, whatever the
\* contents of the map of computed labels.
C26_Original ==
    Recomputed => fn.result = fn.first.result

\* C26 (amended): two computations with the same prefix map, parent map, key and
\* depth return the same ordered list when the depth is at most 3, whatever the
\* map of computed labels holds, and when they are given the same map of computed
\* labels; at depth 4 or more the list is the one the map of computed labels
\* holds for the parent, where it holds one.
C26_SameInputsSameLabels ==
    Recomputed =>
        /\ fn.args.depth <= 3 => fn.result = fn.first.result
        /\ fn.args.label_map = fn.first.label_map => fn.result = fn.first.result
        /\ Inherits(fn.args) =>
              fn.result = fn.args.label_map[fn.args.parent_map[fn.args.issue_key]]

\* at depth 3 a chain of four prefixes was computed with labels recorded for the
\* issues above and again with none recorded, with the same three labels
C26_Witness ==
    /\ Recomputed
    /\ fn.args.depth = 3
    /\ fn.first.label_map # <<>> /\ fn.args.label_map = <<>>
    /\ Len(PrefixChain(fn.args)) = 4
    /\ Len(fn.result) = 3
    /\ fn.result = fn.first.result

(***************************************************************************)
(* Properties of _extract_prefix.                                          *)
(***************************************************************************)
\* t is an uppercase letter, digits, then groups of a dot and digits: it starts
\* with an uppercase letter and a digit, goes on with digits and dots only, ends
\* with a digit and has a digit on both sides of every dot
IsToken(t) ==
    /\ Len(t) >= 2
    /\ IsUpper(t[1])
    /\ t[2] \in Digits
    /\ t[Len(t)] \in Digits
    /\ \A j \in 2..Len(t) :
          \/ t[j] \in Digits
          \/ t[j] = "." /\ t[j - 1] \in Digits /\ j < Len(t) /\ t[j + 1] \in Digits
LeadingTokens(title) == {m \in 1..Len(title) : IsToken(SubSeq(title, 1, m))}
ExtractReturned == pc = "returned" /\ fn.name = "_extract_prefix" /\ fn.returned

\* C14: _extract_prefix returns the longest leading token of the title of the form
\* uppercase letter, digits, groups of a dot and digits, and none (the empty
\* sequence here) for a title that starts with no such token; "C1.5.2 Ship the
\* thing" gives "C1.5.2" and "Just a title" gives none.
C14_LongestLeadingToken ==
    ExtractReturned =>
        LET title == fn.args.summary
            T == LeadingTokens(title)
        IN  /\ T = {} => fn.result = <<>>
            /\ T # {} => /\ Len(fn.result) \in T
                         /\ \A m \in T : m <= Len(fn.result)
                         /\ fn.result = SubSeq(title, 1, Len(fn.result))
            /\ title = ShipTheThing => fn.result = <<"C","1",".","5",".","2">>
            /\ title = JustATitle => fn.result = <<>>

\* the call on "C1.5.2 Ship the thing" has returned "C1.5.2"
C14_Witness ==
    /\ ExtractReturned
    /\ fn.args.summary = ShipTheThing
    /\ fn.result = <<"C","1",".","5",".","2">>

====
